---- MODULE Spec2Model ----
(***************************************************************************)
(* A model of app.py, the Streamlit dashboard of the QC application.       *)
(*                                                                         *)
(* The script is re-run from top to bottom after every user interaction.   *)
(* A state of the model is what the session holds after one run of the     *)
(* script: the widget values, the two lookup tables, what the run passed   *)
(* to predict_new and what it put on the page.  An action is one user      *)
(* interaction followed by the whole re-run of the script.                 *)
(*                                                                         *)
(* Text values of the lookup tables are modelled by positive integers      *)
(* whose order stands for the collation order of the strings.  Column      *)
(* names are sequences of characters, so that lower() and the substring    *)
(* test "x in c" are computed as Python computes them.                     *)
(***************************************************************************)
EXTENDS Integers, Sequences, FiniteSets, TLC

VARIABLES
    df_hierarchy,   \* lookup table SEKTOR / SUBSEKTOR / MSIC_5D (line 28)
    df_nd,          \* lookup table NEGERI / DAERAH (line 29)
    model,          \* what the models under MODEL_DIR make predict_new return
    mode,           \* st.radio "Select Mode:" (line 52)
    selected,       \* st.radio "Select Target:" (line 54)
    sektor,         \* the five select boxes of the sidebar (lines 69-88)
    subsektor,
    msic,
    negeri,
    daerah,
    num,            \* the number inputs of the sidebar, by column (lines 92-97)
    df_batch,       \* the uploaded table, None when no file is uploaded (line 173)
    event,          \* what caused the last run: "load", "widget" or "button"
    calls,          \* the arguments of each predict_new call of the last run
    outcome,        \* how the last run ended: "idle", "ok" or "error"
    located,        \* low_col, med_col, up_col of the last run (lines 112-114)
    page            \* what the last run rendered

vars == <<df_hierarchy, df_nd, model, mode, selected, sektor, subsektor, msic, negeri,
          daerah, num, df_batch, event, calls, outcome, located, page>>

\* ------------------------------------------------------------------ bounds

\* Largest reported value of the selected target when a run is rendered.
MaxActual == 2
\* Largest value of a predicted bound in the model.
MaxPred == 2
\* Largest number of rows of a generated hierarchy table.
MaxHierRows == 2
\* Largest number of rows of a generated region table.
MaxNdRows == 2
\* Largest number of rows of an uploaded table.
MaxBatchRows == 6

\* Values of the lookup columns (codes standing for strings, in collation order).
LookupVals == 1..2

\* What a select box with no options returns; no lookup value equals it.
None == 0

\* ----------------------------------------------------------- Python helpers

RECURSIVE Insert(_, _)
Insert(x, s) ==
    IF s = <<>> THEN <<x>>
    ELSE IF x <= Head(s) THEN <<x>> \o s
    ELSE <<Head(s)>> \o Insert(x, Tail(s))

\* sorted(): ascending insertion sort (any stable sort gives the same list).
RECURSIVE sorted(_)
sorted(s) == IF s = <<>> THEN <<>> ELSE Insert(Head(s), sorted(Tail(s)))

\* Series.unique(): the distinct values in order of first appearance.
RECURSIVE unique(_)
unique(s) ==
    IF s = <<>> THEN <<>>
    ELSE LET r == unique(SubSeq(s, 1, Len(s) - 1))
             x == s[Len(s)]
         IN  IF \E i \in 1..Len(r) : r[i] = x THEN r ELSE Append(r, x)

\* df[col]: one column of a table as a sequence.
Column(df, col) == [i \in 1..Len(df) |-> df[i][col]]

Range(s) == {s[i] : i \in 1..Len(s)}

\* ----------------------------------------------------------- lookup queries

sektor_list(h) == sorted(unique(Column(h, "SEKTOR")))

\* Variant: the sub-sectors of every sector.
sub_opts_anysektor(h, s) == sorted(unique(Column(h, "SUBSEKTOR")))

sub_opts(h, s) ==
    sorted(unique(Column(SelectSeq(h, LAMBDA r : r.SEKTOR = s), "SUBSEKTOR")))

\* Variant: the codes of the sub-sector name under any sector.
msic_opts_subonly(h, s, ss) ==
    sorted(unique(Column(SelectSeq(h, LAMBDA r : r.SUBSEKTOR = ss), "MSIC_5D")))

msic_opts(h, s, ss) ==
    sorted(unique(Column(
        SelectSeq(h, LAMBDA r : r.SEKTOR = s /\ r.SUBSEKTOR = ss), "MSIC_5D")))

negeri_list(nd) == sorted(unique(Column(nd, "NEGERI")))

\* Variant: the districts in file order.
daerah_opts_unsorted(nd, n) ==
    unique(Column(SelectSeq(nd, LAMBDA r : r.NEGERI = n), "DAERAH"))

daerah_opts(nd, n) ==
    sorted(unique(Column(SelectSeq(nd, LAMBDA r : r.NEGERI = n), "DAERAH")))

\* ------------------------------------------------------------- select boxes

\* A select box drawn for the first time shows its first option, and None
\* when it has no options.
Default(opts) == IF opts = <<>> THEN None ELSE opts[1]

\* Variant: a select box that keeps its stored choice whatever it offers.
Resolve_stale(stored, opts, old) == {stored}

\* st.selectbox on a re-run: with the options it had on the previous run the
\* stored choice stands.  With other options the widget is either rebuilt
\* (first option) or keeps a stored choice that is still offered, depending
\* on the Streamlit release; both outcomes are allowed.
Resolve(stored, opts, old) ==
    IF opts = old /\ stored \in Range(opts) THEN {stored}
    ELSE {Default(opts)} \cup ({stored} \cap Range(opts))

\* ------------------------------------------------------------------ strings

\* The characters of each name the script and the predictor use.
Chars ==
    "SEKTOR" :> <<"S","E","K","T","O","R">> @@
    "SUBSEKTOR" :> <<"S","U","B","S","E","K","T","O","R">> @@
    "MSIC_5D" :> <<"M","S","I","C","_","5","D">> @@
    "NEGERI" :> <<"N","E","G","E","R","I">> @@
    "DAERAH" :> <<"D","A","E","R","A","H">> @@
    "OUTPUT" :> <<"O","U","T","P","U","T">> @@
    "INPUT" :> <<"I","N","P","U","T">> @@
    "NILAI_DITAMBAH" :> <<"N","I","L","A","I","_","D","I","T","A","M","B","A","H">> @@
    "GAJI_UPAH" :> <<"G","A","J","I","_","U","P","A","H">> @@
    "JUMLAH_PEKERJA" :> <<"J","U","M","L","A","H","_","P","E","K","E","R","J","A">> @@
    "HARTA_TETAP" :> <<"H","A","R","T","A","_","T","E","T","A","P">> @@
    "_PRED_" :> <<"_","P","R","E","D","_">> @@
    "LOW" :> <<"L","O","W">> @@
    "MED" :> <<"M","E","D">> @@
    "UP" :> <<"U","P">> @@
    "low" :> <<"l","o","w">> @@
    "med" :> <<"m","e","d">> @@
    "up" :> <<"u","p">>

\* str.lower() on one character.
ToLower ==
    "A" :> "a" @@ "B" :> "b" @@ "C" :> "c" @@ "D" :> "d" @@ "E" :> "e" @@ "F" :> "f" @@
    "G" :> "g" @@ "H" :> "h" @@ "I" :> "i" @@ "J" :> "j" @@ "K" :> "k" @@ "L" :> "l" @@
    "M" :> "m" @@ "N" :> "n" @@ "O" :> "o" @@ "P" :> "p" @@ "Q" :> "q" @@ "R" :> "r" @@
    "S" :> "s" @@ "T" :> "t" @@ "U" :> "u" @@ "V" :> "v" @@ "W" :> "w" @@ "X" :> "x" @@
    "Y" :> "y" @@ "Z" :> "z"

\* str.lower(): every upper-case letter replaced, the other characters kept.
lower(s) == [i \in 1..Len(s) |-> IF s[i] \in DOMAIN ToLower THEN ToLower[s[i]] ELSE s[i]]

\* The Python test "x in c" on strings: x is a substring of c.
In(x, c) == \E i \in 0..(Len(c) - Len(x)) : SubSeq(c, i + 1, i + Len(x)) = x

\* ------------------------------------------------------- targets, features

TARGETS == <<"OUTPUT", "INPUT", "NILAI_DITAMBAH", "GAJI_UPAH", "JUMLAH_PEKERJA">>

FEATURES ==
    "OUTPUT" :> <<"JUMLAH_PEKERJA", "HARTA_TETAP", "GAJI_UPAH", "OUTPUT">> @@
    "INPUT" :> <<"JUMLAH_PEKERJA", "HARTA_TETAP", "OUTPUT", "INPUT">> @@
    "NILAI_DITAMBAH" :>
        <<"OUTPUT", "INPUT", "JUMLAH_PEKERJA", "HARTA_TETAP", "NILAI_DITAMBAH">> @@
    "GAJI_UPAH" :> <<"JUMLAH_PEKERJA", "OUTPUT", "HARTA_TETAP", "GAJI_UPAH">> @@
    "JUMLAH_PEKERJA" :>
        <<"OUTPUT", "INPUT", "NILAI_DITAMBAH", "GAJI_UPAH", "HARTA_TETAP",
          "JUMLAH_PEKERJA">>

\* Every column a number input is drawn for, under some target.
NumCols == UNION {Range(FEATURES[t]) : t \in Range(TARGETS)}

\* The select boxes, in the order the script draws them.
CatCols == <<"SEKTOR", "SUBSEKTOR", "MSIC_5D", "NEGERI", "DAERAH">>

\* An optional value: <<>> when absent (Python's None), <<v>> when present.
Absent == <<>>
Some(v) == <<v>>

\* --------------------------------------------------------------- the tables

\* A data frame: its column names and its rows, each row the cells in column order.
Frame(cols, rows) == [cols |-> cols, rows |-> rows]

\* The keys of user_input, in the order the script inserts them (lines 70-97).
InputCols(t) == CatCols \o FEATURES[t]

\* user_input once the sidebar is drawn (lines 62-97).
user_input(t, sk, ss, ms, ng, dr, n) ==
    [c \in Range(InputCols(t)) |->
        CASE c = "SEKTOR" -> sk
          [] c = "SUBSEKTOR" -> ss
          [] c = "MSIC_5D" -> ms
          [] c = "NEGERI" -> ng
          [] c = "DAERAH" -> dr
          [] OTHER -> n[c]]

\* pd.DataFrame([user_input]): one row, the keys as columns (line 105).
df_input(t, ui) ==
    Frame(InputCols(t),
          <<[i \in 1..Len(InputCols(t)) |-> ui[InputCols(t)[i]]]>>)

\* DataFrame.head(): the first five rows (line 175).
HeadRows == 5
head(df) ==
    Frame(df.cols, SubSeq(df.rows, 1, IF Len(df.rows) < HeadRows THEN Len(df.rows) ELSE HeadRows))

\* DataFrame.to_csv(index=False): the header line, then one line per row (line 186).
to_csv(df) == <<df.cols>> \o df.rows

\* Reading such a file back: the first line names the columns.
read_csv(lines) == Frame(Head(lines), Tail(lines))

\* ------------------------------------------------------------ the predictor

\* predict_new is not part of the script.  A successful call returns a frame
\* with one row per input row; its columns follow a layout: which of the
\* LOW / MED / UP predictions it holds for every target, in which order, and
\* whether the input columns are echoed before or after them.
Suffixes == {"LOW", "MED", "UP"}

Orders == {o \in [1..3 -> Suffixes] : Range(o) = Suffixes}

Layouts == [present : SUBSET Suffixes, order : Orders, echo : {"none", "before", "after"}]

\* The layout of the naming convention, and one that predicts nothing.
FullLayout == [present |-> Suffixes, order |-> <<"LOW", "MED", "UP">>, echo |-> "before"]
BareLayout == [present |-> {}, order |-> <<"LOW", "MED", "UP">>, echo |-> "before"]

\* The predicted values of a row, by suffix; the median sits on the lower bound.
PredVals == 0..MaxPred
Preds == {v \in [Suffixes -> PredVals] : v["MED"] = v["LOW"]}
FlatPreds == {v \in Preds : v["LOW"] = v["UP"]}

PredName(t, sfx) == t \o "_PRED_" \o sfx

\* Every column name of the model, spelled out.
ColNames == DOMAIN Chars \cup {PredName(t, sfx) : t \in Range(TARGETS), sfx \in Suffixes}
Spelling ==
    [c \in ColNames |->
        IF c \in DOMAIN Chars THEN Chars[c]
        ELSE LET p == CHOOSE p \in Range(TARGETS) \X Suffixes : PredName(p[1], p[2]) = c
             IN  Chars[p[1]] \o Chars["_PRED_"] \o Chars[p[2]]]

\* The prediction columns of a layout: target by target, in the layout's order.
PredPairs(l) ==
    SelectSeq([i \in 1..(3 * Len(TARGETS)) |->
                  [t |-> TARGETS[((i - 1) \div 3) + 1], sfx |-> l.order[((i - 1) % 3) + 1]]],
              LAMBDA p : p.sfx \in l.present)

\* The frame a successful predict_new(df, out_dir=MODEL_DIR) returns under layout l
\* with predictions v.
Predicted(df, l, v) ==
    LET pairs == PredPairs(l)
        pcols == [i \in 1..Len(pairs) |-> PredName(pairs[i].t, pairs[i].sfx)]
        prow  == [i \in 1..Len(pairs) |-> v[pairs[i].sfx]]
        Join(a, b) == IF l.echo = "before" THEN a \o b
                      ELSE IF l.echo = "after" THEN b \o a
                      ELSE b
    IN  Frame(Join(df.cols, pcols), [k \in 1..Len(df.rows) |-> Join(df.rows[k], prow)])

\* ------------------------------------------------------ flagging, rendering

\* c.lower() of every column name.
Lowered == [c \in ColNames |-> lower(Spelling[c]) \o <<>>] @@ <<>>

\* A column that was not found: None, which is as false as the empty name.
NoCol == ""

\* The test of lines 112-114 for every needle, target and column name:
\* needle in c.lower() and selected.lower() in c.lower().
Needles == {"low", "med", "up"}
Matches ==
    [k \in Needles \X Range(TARGETS) \X ColNames |->
        In(Chars[k[1]], Lowered[k[3]]) /\ In(Lowered[k[2]], Lowered[k[3]])] @@ <<>>

\* next((c for c in result.columns
\*       if needle in c.lower() and selected.lower() in c.lower()), None)
Locate(cols, needle, sel) ==
    LET hits == SelectSeq(cols, LAMBDA c : Matches[<<needle, sel, c>>])
    IN  IF hits = <<>> THEN NoCol ELSE hits[1]

low_col(result, sel) == Locate(result.cols, "low", sel)
med_col(result, sel) == Locate(result.cols, "med", sel)
up_col(result, sel) == Locate(result.cols, "up", sel)

\* float(result[col].iloc[0]): the first row's cell of the column named col.
Cell(result, col) ==
    result.rows[1][CHOOSE i \in 1..Len(result.cols) :
                       /\ result.cols[i] = col
                       /\ \A j \in 1..(i - 1) : result.cols[j] # col]

\* Variant: a value on a bound counts as outside the range.
explanation_strict(actual, lb, ub) ==
    IF actual <= lb THEN "under" ELSE IF actual >= ub THEN "over" ELSE "within"

\* The three-way comparison (lines 122-130); the name stands for the message.
explanation(actual, lb, ub) ==
    IF actual < lb THEN "under" ELSE IF actual > ub THEN "over" ELSE "within"

flag_color(actual, lb, ub) ==
    IF actual < lb THEN "red" ELSE IF actual > ub THEN "red" ELSE "green"

\* if low_col and med_col and up_col (line 116)
AllLocated(lo, me, up) == lo # NoCol /\ me # NoCol /\ up # NoCol

\* What a run of the script has rendered: the preview of the uploaded file
\* (line 175), the result table (lines 109, 182), the flag message (line 132),
\* the range chart (line 153), the bar chart (line 160), the download
\* (line 184).
EmptyPage ==
    [preview |-> Absent, table |-> Absent, info |-> Absent, range_chart |-> Absent,
     bar_chart |-> Absent, download |-> Absent]

NoneLocated == [low_col |-> NoCol, med_col |-> NoCol, up_col |-> NoCol]

\* The page of a run in which no button was pressed.
IdlePage(m, b) ==
    IF m = "Batch" /\ b # Absent THEN [EmptyPage EXCEPT !.preview = Some(head(b[1]))]
    ELSE EmptyPage

bar_df(t, ui) ==
    [Category |-> FEATURES[t], Value |-> [i \in 1..Len(FEATURES[t]) |-> ui[FEATURES[t][i]]]]

\* Variant: the bar chart drawn inside the branch of line 116.
SinglePage_barinside(t, ui, result, lo, me, up) ==
    IF AllLocated(lo, me, up)
    THEN LET lb == Cell(result, lo)
             mb == Cell(result, me)
             ub == Cell(result, up)
             actual == ui[t]
         IN  [EmptyPage EXCEPT
                !.table = Some(result),
                !.info = Some(explanation(actual, lb, ub)),
                !.range_chart = Some([lb |-> lb, mb |-> mb, ub |-> ub, actual |-> actual,
                                      color |-> flag_color(actual, lb, ub)]),
                !.bar_chart = Some(bar_df(t, ui))]
    ELSE [EmptyPage EXCEPT !.table = Some(result)]

\* Lines 108-160: the page of a single run whose predictor call returned result.
SinglePage(t, ui, result, lo, me, up) ==
    IF AllLocated(lo, me, up)
    THEN LET lb == Cell(result, lo)
             mb == Cell(result, me)
             ub == Cell(result, up)
             actual == ui[t]
         IN  [EmptyPage EXCEPT
                !.table = Some(result),
                !.info = Some(explanation(actual, lb, ub)),
                !.range_chart = Some([lb |-> lb, mb |-> mb, ub |-> ub, actual |-> actual,
                                      color |-> flag_color(actual, lb, ub)]),
                !.bar_chart = Some(bar_df(t, ui))]
    ELSE [EmptyPage EXCEPT !.table = Some(result), !.bar_chart = Some(bar_df(t, ui))]

\* Variant: the first rows only are shown and exported.
BatchPage_head(b, result) ==
    [EmptyPage EXCEPT !.preview = Some(head(b)), !.table = Some(head(result)),
                      !.download = Some(to_csv(head(result)))]

\* Lines 173-189: the page of a batch run whose predictor call returned result.
BatchPage(b, result) ==
    [EmptyPage EXCEPT !.preview = Some(head(b)), !.table = Some(result),
                      !.download = Some(to_csv(result))]

\* -------------------------------------------------------------- the session

Modes == {"Single", "Batch"}
\* The values typed into the number inputs during a session.
NumVals == {0, 1}
NumZero == [c \in NumCols |-> 0]

\* The lookup files of the model: a sub-sector name shared by two sectors, a
\* repeated row, rows out of order.
HierarchyFixture ==
    << [SEKTOR |-> 2, SUBSEKTOR |-> 1, MSIC_5D |-> 3],
       [SEKTOR |-> 1, SUBSEKTOR |-> 2, MSIC_5D |-> 2],
       [SEKTOR |-> 1, SUBSEKTOR |-> 1, MSIC_5D |-> 2],
       [SEKTOR |-> 1, SUBSEKTOR |-> 1, MSIC_5D |-> 1],
       [SEKTOR |-> 1, SUBSEKTOR |-> 2, MSIC_5D |-> 2] >>

RegionFixture ==
    << [NEGERI |-> 2, DAERAH |-> 3],
       [NEGERI |-> 1, DAERAH |-> 2],
       [NEGERI |-> 1, DAERAH |-> 1] >>

HierRows == [SEKTOR : LookupVals, SUBSEKTOR : LookupVals, MSIC_5D : LookupVals]
NdRows == [NEGERI : LookupVals, DAERAH : LookupVals]
Tables(rows, n) == UNION {[1..k -> rows] : k \in 0..n}

\* The uploaded files of the model.
BatchCols == <<"SEKTOR", "OUTPUT">>
BatchRowVals == {<<1, 0>>, <<2, 1>>}
BatchTables == {Frame(BatchCols, rows) : rows \in Tables(BatchRowVals, MaxBatchRows)}

\* The models of the model: the layout and the predictions of every row.
Models == [layout : Layouts, preds : Preds]
BareModel == [layout |-> BareLayout, preds |-> [x \in Suffixes |-> 0]]
AppModels == {[layout |-> FullLayout, preds |-> v] : v \in FlatPreds} \cup {BareModel}

\* The select boxes and number inputs drawn under new widget keys: every one
\* on its default (lines 68-97).
FreshSidebar(h, nd) ==
    LET sk == Default(sektor_list(h))
        ss == Default(sub_opts(h, sk))
        ng == Default(negeri_list(nd))
    IN  /\ sektor' = sk
        /\ subsektor' = ss
        /\ msic' = Default(msic_opts(h, sk, ss))
        /\ negeri' = ng
        /\ daerah' = Default(daerah_opts(nd, ng))
        /\ num' = NumZero

\* Batch mode draws no sidebar; the state of a widget that is not drawn is dropped.
NoSidebar ==
    /\ sektor' = None /\ subsektor' = None /\ msic' = None
    /\ negeri' = None /\ daerah' = None /\ num' = NumZero

\* Variant: the predictor called on every run of the script.
Idle_norunguard(m, b) ==
    /\ event' = "widget"
    /\ calls' = <<Frame(<<>>, <<>>)>>
    /\ outcome' = "ok"
    /\ located' = NoneLocated
    /\ page' = IdlePage(m, b)

\* A run of the script in which no button is pressed: run is False (line 104),
\* st.button is False (line 177).
Idle(m, b) ==
    /\ event' = "widget"
    /\ calls' = <<>>
    /\ outcome' = "idle"
    /\ located' = NoneLocated
    /\ page' = IdlePage(m, b)

InitWith(h, nd, md, t, n) ==
    /\ df_hierarchy = h
    /\ df_nd = nd
    /\ model = md
    /\ mode = "Single"
    /\ selected = t
    /\ sektor = Default(sektor_list(h))
    /\ subsektor = Default(sub_opts(h, sektor))
    /\ msic = Default(msic_opts(h, sektor, subsektor))
    /\ negeri = Default(negeri_list(nd))
    /\ daerah = Default(daerah_opts(nd, negeri))
    /\ num = n
    /\ df_batch = Absent
    /\ event = "load"
    /\ calls = <<>>
    /\ outcome = "idle"
    /\ located = NoneLocated
    /\ page = EmptyPage

\* The first run of the script: the target radio on its first option (index=0).
Init == \E md \in AppModels : InitWith(HierarchyFixture, RegionFixture, md, TARGETS[1], NumZero)

\* The mode radio (line 52).
SelectMode(m) ==
    /\ m \in Modes \ {mode}
    /\ mode' = m
    /\ df_batch' = Absent
    /\ IF m = "Single" THEN FreshSidebar(df_hierarchy, df_nd) ELSE NoSidebar
    /\ Idle(m, Absent)
    /\ UNCHANGED <<df_hierarchy, df_nd, model, selected>>

\* The target radio (line 54): the sidebar widgets are keyed by the target.
SelectTarget(t) ==
    /\ t \in Range(TARGETS) \ {selected}
    /\ selected' = t
    /\ IF mode = "Single" THEN FreshSidebar(df_hierarchy, df_nd) ELSE NoSidebar
    /\ Idle(mode, df_batch)
    /\ UNCHANGED <<df_hierarchy, df_nd, model, mode, df_batch>>

\* The SEKTOR select box (lines 68-81).
SelectSektor(v) ==
    /\ mode = "Single"
    /\ v \in Range(sektor_list(df_hierarchy)) \ {sektor}
    /\ sektor' = v
    /\ subsektor' \in Resolve(subsektor, sub_opts(df_hierarchy, v),
                              sub_opts(df_hierarchy, sektor))
    /\ msic' \in Resolve(msic, msic_opts(df_hierarchy, v, subsektor'),
                         msic_opts(df_hierarchy, sektor, subsektor))
    /\ Idle(mode, df_batch)
    /\ UNCHANGED <<df_hierarchy, df_nd, model, mode, selected, negeri, daerah, num, df_batch>>

\* The SUBSEKTOR select box (lines 72-81).
SelectSubsektor(v) ==
    /\ mode = "Single"
    /\ v \in Range(sub_opts(df_hierarchy, sektor)) \ {subsektor}
    /\ subsektor' = v
    /\ msic' \in Resolve(msic, msic_opts(df_hierarchy, sektor, v),
                         msic_opts(df_hierarchy, sektor, subsektor))
    /\ Idle(mode, df_batch)
    /\ UNCHANGED <<df_hierarchy, df_nd, model, mode, selected, sektor, negeri, daerah, num,
                   df_batch>>

\* The MSIC 5D select box (lines 76-81).
SelectMsic(v) ==
    /\ mode = "Single"
    /\ v \in Range(msic_opts(df_hierarchy, sektor, subsektor)) \ {msic}
    /\ msic' = v
    /\ Idle(mode, df_batch)
    /\ UNCHANGED <<df_hierarchy, df_nd, model, mode, selected, sektor, subsektor, negeri,
                   daerah, num, df_batch>>

\* The NEGERI select box (lines 83-89).
SelectNegeri(v) ==
    /\ mode = "Single"
    /\ v \in Range(negeri_list(df_nd)) \ {negeri}
    /\ negeri' = v
    /\ daerah' \in Resolve(daerah, daerah_opts(df_nd, v), daerah_opts(df_nd, negeri))
    /\ Idle(mode, df_batch)
    /\ UNCHANGED <<df_hierarchy, df_nd, model, mode, selected, sektor, subsektor, msic, num,
                   df_batch>>

\* The DAERAH select box (lines 87-89).
SelectDaerah(v) ==
    /\ mode = "Single"
    /\ v \in Range(daerah_opts(df_nd, negeri)) \ {daerah}
    /\ daerah' = v
    /\ Idle(mode, df_batch)
    /\ UNCHANGED <<df_hierarchy, df_nd, model, mode, selected, sektor, subsektor, msic, negeri,
                   num, df_batch>>

\* A number input of the sidebar (lines 92-97): min_value keeps it at 0 or above.
SetNum(c, v) ==
    /\ mode = "Single"
    /\ c \in Range(FEATURES[selected])
    /\ v \in NumVals \ {num[c]}
    /\ num' = [num EXCEPT ![c] = v]
    /\ Idle(mode, df_batch)
    /\ UNCHANGED <<df_hierarchy, df_nd, model, mode, selected, sektor, subsektor, msic, negeri,
                   daerah, df_batch>>

\* The file uploader (lines 170-175).
Upload(b) ==
    /\ mode = "Batch"
    /\ b \in BatchTables
    /\ df_batch = Absent
    /\ df_batch' = Some(b)
    /\ Idle(mode, Some(b))
    /\ UNCHANGED <<df_hierarchy, df_nd, model, mode, selected, sektor, subsektor, msic, negeri,
                   daerah, num>>

RemoveFile ==
    /\ mode = "Batch"
    /\ df_batch # Absent
    /\ df_batch' = Absent
    /\ Idle(mode, Absent)
    /\ UNCHANGED <<df_hierarchy, df_nd, model, mode, selected, sektor, subsektor, msic, negeri,
                   daerah, num>>

\* Variant: the exception caught and an empty result shown.
Halted_caught(drawn) == [drawn EXCEPT !.table = Some(Frame(<<>>, <<>>))]

\* The page of a run that an exception of predict_new stopped: what was drawn
\* before the call, nothing after it (lines 106, 179 have no try).
Halted(drawn) == drawn

\* The "Run QC" button (lines 99-160).  A failing predict_new is not caught:
\* the script stops at line 106.
RunQC ==
    /\ mode = "Single"
    /\ LET ui == user_input(selected, sektor, subsektor, msic, negeri, daerah, num)
           df == df_input(selected, ui)
       IN  /\ calls' = <<df>>
           /\ \/ /\ outcome' = "error"
                 /\ located' = NoneLocated
                 /\ page' = Halted(EmptyPage)
              \/ \E result \in {Predicted(df, model.layout, model.preds)} :
                 \E lo \in {low_col(result, selected)},
                    me \in {med_col(result, selected)},
                    up \in {up_col(result, selected)} :
                     /\ outcome' = "ok"
                     /\ located' = [low_col |-> lo, med_col |-> me, up_col |-> up]
                     /\ page' = SinglePage(selected, ui, result, lo, me, up)
    /\ event' = "button"
    /\ UNCHANGED <<df_hierarchy, df_nd, model, mode, selected, sektor, subsektor, msic,
                   negeri, daerah, num, df_batch>>

\* The "Run Batch Prediction" button (lines 177-189).  A failing predict_new
\* stops the script at line 179, after the preview is drawn.
RunBatch ==
    /\ mode = "Batch"
    /\ df_batch # Absent
    /\ calls' = <<df_batch[1]>>
    /\ \/ /\ outcome' = "error"
          /\ page' = Halted(IdlePage(mode, df_batch))
       \/ /\ outcome' = "ok"
          /\ page' = BatchPage(df_batch[1], Predicted(df_batch[1], model.layout, model.preds))
    /\ located' = NoneLocated
    /\ event' = "button"
    /\ UNCHANGED <<df_hierarchy, df_nd, model, mode, selected, sektor, subsektor, msic,
                   negeri, daerah, num, df_batch>>

Next ==
    \/ \E m \in Modes : SelectMode(m)
    \/ \E t \in Range(TARGETS) : SelectTarget(t)
    \/ \E v \in Range(sektor_list(df_hierarchy)) : SelectSektor(v)
    \/ \E v \in Range(sub_opts(df_hierarchy, sektor)) : SelectSubsektor(v)
    \/ \E v \in Range(msic_opts(df_hierarchy, sektor, subsektor)) : SelectMsic(v)
    \/ \E v \in Range(negeri_list(df_nd)) : SelectNegeri(v)
    \/ \E v \in Range(daerah_opts(df_nd, negeri)) : SelectDaerah(v)
    \/ \E c \in NumCols, v \in NumVals : SetNum(c, v)
    \/ \E b \in BatchTables : Upload(b)
    \/ RemoveFile
    \/ RunQC
    \/ RunBatch

Spec == Init /\ [][Next]_vars

\* The dropdowns over every small lookup table: one table is generated, the
\* other is the fixture; the models predict nothing.
InitLookup ==
    \/ \E h \in Tables(HierRows, MaxHierRows) : InitWith(h, RegionFixture, BareModel, TARGETS[1], NumZero)
    \/ \E nd \in Tables(NdRows, MaxNdRows) : InitWith(HierarchyFixture, nd, BareModel, TARGETS[1], NumZero)

NextLookup ==
    \/ \E v \in Range(sektor_list(df_hierarchy)) : SelectSektor(v)
    \/ \E v \in Range(sub_opts(df_hierarchy, sektor)) : SelectSubsektor(v)
    \/ \E v \in Range(msic_opts(df_hierarchy, sektor, subsektor)) : SelectMsic(v)
    \/ \E v \in Range(negeri_list(df_nd)) : SelectNegeri(v)
    \/ \E v \in Range(daerah_opts(df_nd, negeri)) : SelectDaerah(v)
    \/ RunQC

SpecLookup == InitLookup /\ [][NextLookup]_vars

\* One press of the run button for every target, reported value, layout and
\* prediction.
InitRender ==
    \E t \in Range(TARGETS), a \in 0..MaxActual, md \in Models :
        InitWith(HierarchyFixture, RegionFixture, md, t, [NumZero EXCEPT ![t] = a])

NextRender == RunQC

SpecRender == InitRender /\ [][NextRender]_vars

\* ------------------------------------------------------------------- claims

\* The reported value, the located bounds and the flag of a rendered single run.
Actual == num[selected]
LowBound == Cell(page.table[1], located.low_col)
UpBound == Cell(page.table[1], located.up_col)
Flagged == page.info # Absent
Trichotomy ==
    /\ page.info[1] \in {"under", "within", "over"}
    /\ (page.info[1] = "under") <=> (Actual < LowBound)
    /\ (page.info[1] = "over") <=> (Actual >= LowBound /\ Actual > UpBound)
    /\ (page.info[1] = "within") <=> (~(Actual < LowBound) /\ ~(Actual > UpBound))

\* C1 (as stated): whenever a flag is shown it is "under" exactly when
\* actual < low, "over" exactly when actual >= low and actual > up, "within"
\* otherwise, and a value equal to either bound is flagged "within".  Stated
\* here for the runs that located the target's own LOW and UP columns.
C1_FlagBoundaryAlwaysWithin ==
    (/\ Flagged
     /\ located.low_col = PredName(selected, "LOW")
     /\ located.up_col = PredName(selected, "UP")) =>
        /\ Trichotomy
        /\ (Actual = LowBound \/ Actual = UpBound) => page.info[1] = "within"

\* C1 (amended): the same three-way rule; a value equal to either bound is
\* flagged "within" when the lower bound does not exceed the upper bound.
C1_FlagTrichotomy ==
    Flagged =>
        /\ Trichotomy
        /\ (LowBound <= UpBound /\ (Actual = LowBound \/ Actual = UpBound))
               => page.info[1] = "within"

C1_Witness ==
    /\ Flagged
    /\ LowBound < UpBound
    /\ Actual = UpBound
    /\ page.info[1] = "within"

\* C2: when the result holds the LOW, MED and UP columns of every target, the
\* columns located for the selected target are its own three columns.
C2_OwnColumns ==
    (outcome = "ok" /\ mode = "Single" /\ model.layout.present = Suffixes) =>
        /\ located.low_col = PredName(selected, "LOW")
        /\ located.med_col = PredName(selected, "MED")
        /\ located.up_col = PredName(selected, "UP")

\* Strictly ascending: sorted, and no value twice.
Ascending(s) == \A i, j \in 1..Len(s) : i < j => s[i] < s[j]

\* None, and every value the lookup tables of the model hold.
AnyVal ==
    {None} \cup LookupVals
        \cup UNION {{r.SEKTOR, r.SUBSEKTOR, r.MSIC_5D} : r \in Range(df_hierarchy)}
        \cup UNION {{r.NEGERI, r.DAERAH} : r \in Range(df_nd)}

\* C3: for every sector of the hierarchy table, the sub-sector options are
\* exactly the SUBSEKTOR values of the rows of that sector, ascending, none twice.
C3_SubOptsExact ==
    \A S \in Range(Column(df_hierarchy, "SEKTOR")) :
        /\ Range(sub_opts(df_hierarchy, S))
               = {r.SUBSEKTOR : r \in {x \in Range(df_hierarchy) : x.SEKTOR = S}}
        /\ Ascending(sub_opts(df_hierarchy, S))

C3_Witness ==
    /\ event = "widget"
    /\ sektor # None
    /\ Len(sub_opts(df_hierarchy, sektor)) = 1
    /\ \E r \in Range(df_hierarchy) :
          r.SEKTOR # sektor /\ r.SUBSEKTOR \notin Range(sub_opts(df_hierarchy, sektor))

\* C4: for every sector and sub-sector, the code options are exactly the
\* MSIC_5D values of the rows that have both, none twice; a code found only
\* under another sector or another sub-sector is not offered.
C4_MsicOptsExact ==
    \A S \in AnyVal, SS \in AnyVal :
        /\ Range(msic_opts(df_hierarchy, S, SS))
               = {r.MSIC_5D : r \in {x \in Range(df_hierarchy) :
                                        x.SEKTOR = S /\ x.SUBSEKTOR = SS}}
        /\ Ascending(msic_opts(df_hierarchy, S, SS))

C4_Witness ==
    /\ event = "widget"
    /\ msic # None
    /\ \E r \in Range(df_hierarchy) :
          /\ r.SEKTOR # sektor
          /\ r.SUBSEKTOR = subsektor
          /\ r.MSIC_5D \notin Range(msic_opts(df_hierarchy, sektor, subsektor))

\* C5: for every region, the district options are exactly the DAERAH values
\* of the rows of that region, ascending, none twice; with no such row the
\* options are the empty sequence.
C5_DaerahOptsExact ==
    \A R \in AnyVal :
        /\ Range(daerah_opts(df_nd, R))
               = {r.DAERAH : r \in {x \in Range(df_nd) : x.NEGERI = R}}
        /\ Ascending(daerah_opts(df_nd, R))
        /\ (\A r \in Range(df_nd) : r.NEGERI # R) => daerah_opts(df_nd, R) = <<>>

C5_Witness ==
    /\ df_nd # <<>>
    /\ \A r \in Range(df_nd) : r.NEGERI # 2
    /\ daerah_opts(df_nd, 2) = <<>>
    /\ Len(daerah_opts(df_nd, negeri)) = 2
    /\ event = "widget"

\* C6: a batch run calls the predictor once, with the uploaded table as it
\* is; the table shown is what the predictor returned, and the download is
\* that table written out.
C6_BatchPassThrough ==
    (mode = "Batch" /\ event = "button") =>
        /\ df_batch # Absent
        /\ calls = <<df_batch[1]>>
        /\ outcome = "ok" =>
              /\ page.table = Some(Predicted(df_batch[1], model.layout, model.preds))
              /\ page.download # Absent
              /\ read_csv(page.download[1]) = page.table[1]

C6_Witness ==
    /\ mode = "Batch"
    /\ event = "button"
    /\ outcome = "ok"
    /\ Len(df_batch[1].rows) > HeadRows
    /\ Len(page.table[1].rows) = Len(df_batch[1].rows)
    /\ page.table[1] # df_batch[1]

\* C7: a run in which the predictor fails shows no result table, flag, range
\* chart, bar chart or download; the lookup tables are as loaded; and the run
\* button can be pressed again with the predictor answering.
C7_FailureHaltsOneRun ==
    outcome = "error" =>
        /\ page.table = Absent /\ page.info = Absent /\ page.range_chart = Absent
        /\ page.bar_chart = Absent /\ page.download = Absent
        /\ df_hierarchy = HierarchyFixture /\ df_nd = RegionFixture
        /\ IF mode = "Single" THEN ENABLED (RunQC /\ outcome' = "ok")
           ELSE ENABLED (RunBatch /\ outcome' = "ok")

C7_Witness ==
    /\ outcome = "error"
    /\ mode = "Batch"
    /\ page.preview # Absent
    /\ calls # <<>>

\* C8: in single mode the predictor is called only in a run the button
\* started, once, with the one record of the current selections; a run that
\* a widget change started calls nothing and renders no result.
C8_OneCallPerPress ==
    mode = "Single" =>
        /\ event # "button" => (calls = <<>> /\ page = EmptyPage /\ outcome = "idle")
        /\ event = "button" =>
              /\ calls = <<df_input(selected,
                     user_input(selected, sektor, subsektor, msic, negeri, daerah, num))>>
              /\ Len(calls[1].rows) = 1
              /\ outcome \in {"ok", "error"}
        /\ (page.table # Absent \/ page.info # Absent \/ page.range_chart # Absent
                \/ page.bar_chart # Absent) => (outcome = "ok" /\ calls # <<>>)

C8_Witness ==
    /\ mode = "Single"
    /\ event = "button"
    /\ outcome = "ok"
    /\ selected = "GAJI_UPAH"
    /\ num["GAJI_UPAH"] = 1
    /\ sektor = 2
    /\ page.info # Absent

\* C9: with non-empty lookup tables, the record passed to the predictor holds
\* a (SEKTOR, SUBSEKTOR, MSIC_5D) triple that is a row of the hierarchy table
\* and a (NEGERI, DAERAH) pair that is a row of the region table.
C9_CascadeConsistent ==
    (df_hierarchy # <<>> /\ df_nd # <<>> /\ calls # <<>>) =>
        LET row == calls[1].rows[1]
        IN  /\ [SEKTOR |-> row[1], SUBSEKTOR |-> row[2], MSIC_5D |-> row[3]]
                   \in Range(df_hierarchy)
            /\ [NEGERI |-> row[4], DAERAH |-> row[5]] \in Range(df_nd)

C9_Witness ==
    /\ calls # <<>>
    /\ sektor # Default(sektor_list(df_hierarchy))
    /\ \A r \in Range(df_hierarchy) :
          r.SEKTOR = Default(sektor_list(df_hierarchy)) =>
              (r.SUBSEKTOR # subsektor /\ r.MSIC_5D # msic)
    /\ negeri # Default(negeri_list(df_nd))
    /\ \A r \in Range(df_nd) : r.NEGERI = Default(negeri_list(df_nd)) => r.DAERAH # daerah

\* Whether some column of the result passes the test of lines 112-114.
HasMatch(needle) ==
    \E i \in 1..Len(page.table[1].cols) : Matches[<<needle, selected, page.table[1].cols[i]>>]

\* C10: in a single run whose predictor call returned, the flag and the range
\* chart are shown exactly when a low, a med and an up column were all found;
\* the result table and the bar chart of the numeric inputs are shown either way.
C10_FlagIffAllLocated ==
    (mode = "Single" /\ outcome = "ok") =>
        /\ (located.low_col # NoCol) <=> HasMatch("low")
        /\ (located.med_col # NoCol) <=> HasMatch("med")
        /\ (located.up_col # NoCol) <=> HasMatch("up")
        /\ (page.info # Absent) <=> (HasMatch("low") /\ HasMatch("med") /\ HasMatch("up"))
        /\ (page.range_chart # Absent) <=> (page.info # Absent)
        /\ page.table # Absent
        /\ page.bar_chart = Some(bar_df(selected,
               user_input(selected, sektor, subsektor, msic, negeri, daerah, num)))

C10_Witness ==
    /\ mode = "Single"
    /\ outcome = "ok"
    /\ located.low_col # NoCol
    /\ located.med_col # NoCol
    /\ located.up_col = NoCol
    /\ page.info = Absent
    /\ page.range_chart = Absent
    /\ page.table # Absent
    /\ page.bar_chart # Absent

====
